---------------------------- MODULE Spec2Model ----------------------------
(***************************************************************************)
(* The daily stock price pipeline of scripts/fetch_stock_prices.py: the    *)
(* paced, retried fetch of every roster instrument, the normalisation of   *)
(* the quotes into rows, the merge-on-conflict write to the store and the  *)
(* best-effort pruning of rows older than the retention window; two such  *)
(* runs one after the other and two at the same time; and, on the same     *)
(* store, the backfill of one symbol of scripts/backfill_bil_history.py    *)
(* and the backfill of every symbol of scripts/backfill_all_history.py.    *)
(***************************************************************************)
EXTENDS Integers, Sequences, FiniteSets, TLC

(***************************************************************************)
(* Program constants (fetch_stock_prices.py, lines 28-42 and 190).         *)
(***************************************************************************)
TICKERS ==
    << "SPY", "SSO", "UPRO", "QQQ", "QLD", "TQQQ",
       "SOXX", "USD", "SOXL", "STRC", "BIL", "ICSH", "SGOV" >>

MIN_BATCH_SIZE == 2

MAX_BATCH_SIZE == 3

MAX_RETRIES == 3

INITIAL_RETRY_DELAY == 5

RETENTION_DAYS == 300

(***************************************************************************)
(* Bounds of the model.                                                    *)
(***************************************************************************)
\* main() is run on the first NumTickers instruments of TICKERS.
NumTickers == 3

\* The upstream answers with a close between 1 and MaxClose.
MaxClose == 2

\* The clock is read at the instants 0..MaxClock; two instants make a day.
MaxClock == 2

\* The proleptic ordinal (date.toordinal()) of the day of instant 0.
Day0 == 739251

Roster == SubSeq(TICKERS, 1, NumTickers)

Symbols == {Roster[n] : n \in 1..Len(Roster)}

\* An instrument of TICKERS outside the modelled roster, whose rows earlier
\* runs and the history backfill left in the store.
OtherSymbol == TICKERS[Len(TICKERS)]

\* A Python value that a close can be: a float, the float NaN, an int, or
\* a text that float() cannot parse.
Float(x) == [t |-> "float", v |-> x]

NaN == [t |-> "nan", v |-> 0]

Integer(x) == [t |-> "int", v |-> x]

OtherText == [t |-> "text", v |-> 0]

\* float(value) raises ValueError on a text it cannot parse.
FloatRaises(value) == value.t = "text"

\* float(value), when it raises nothing
ToFloat(value) == IF value.t = "nan" THEN NaN ELSE Float(value.v)

Closes == {Float(x) : x \in 1..MaxClose}

TimesOfDay == << "T00:00:00Z", "T12:00:00Z" >>

(***************************************************************************)
(* Dates.  A datetime is [day |-> ordinal, tod |-> index into TimesOfDay].  *)
(***************************************************************************)
\* dt.datetime.now(dt.timezone.utc) at clock instant t
UtcNow(t) ==
    [day |-> Day0 + (t \div Len(TimesOfDay)), tod |-> (t % Len(TimesOfDay)) + 1]

\* datetime - dt.timedelta(days=n)
MinusDays(d, n) == [day |-> d.day - n, tod |-> d.tod]

\* date.isoformat(): the ordinal as <<year, month, day>> of the Gregorian
\* calendar, the value the YYYY-MM-DD text denotes.
IsoDate(ordinal) ==
    LET z   == ordinal + 305
        era == z \div 146097
        doe == z - era * 146097
        yoe == (doe - (doe \div 1460) + (doe \div 36524) - (doe \div 146096)) \div 365
        doy == doe - (365 * yoe + (yoe \div 4) - (yoe \div 100))
        mp  == (5 * doy + 2) \div 153
        d   == doy - ((153 * mp + 2) \div 5) + 1
        m   == IF mp < 10 THEN mp + 3 ELSE mp - 9
        y   == yoe + era * 400 + (IF m <= 2 THEN 1 ELSE 0)
    IN  << y, m, d >>

\* datetime.isoformat().replace('+00:00', 'Z')
IsoDateTime(d) == [date |-> IsoDate(d.day), time |-> TimesOfDay[d.tod]]

\* The order of the store's date column on two YYYY-MM-DD values.
DateLT(a, b) ==
    \/ a[1] < b[1]
    \/ a[1] = b[1] /\ a[2] < b[2]
    \/ a[1] = b[1] /\ a[2] = b[2] /\ a[3] < b[3]

(***************************************************************************)
(* Values.  An optional value (a Python value that may be None) is a        *)
(* sequence of length at most one.                                         *)
(***************************************************************************)
None == << >>

Some(v) == << v >>

\* os.environ.get(name): None when unset, else the text (possibly empty).
EnvValues == {None, Some(""), Some("set")}

\* `not value` on an optional text: None and the empty text are falsy.
Falsy(v) == v = None \/ v[1] = ""

\* What one upstream lookup of an instrument produces: an exception from
\* history()/info, a history row with a close, an empty history with a
\* previousClose in info, or an empty history and no previousClose.
UpstreamOutcomes ==
    {[kind |-> "raise", close |-> Float(0)],
     [kind |-> "nodata", close |-> Float(0)]}
        \cup [kind : {"hist", "info"}, close : Closes]

NoAnswer == [kind |-> "none", close |-> Float(0)]

\* The Close column of ticker.history(period="1d", interval="1d"): floats,
\* NaN where the upstream has no price for the day.
HistoryCloses == Closes \cup {NaN}

\* The rows of the history, oldest first: none, one or two.
Histories ==
    {<< >>} \cup {<< c >> : c \in HistoryCloses}
            \cup {<< d, c >> : d, c \in HistoryCloses}

\* ticker.info.get("previousClose"): absent, or the value the upstream
\* sent (a float, zero, an int, a text such as 'n/a'), which the program
\* takes as it is.
PreviousCloses ==
    {None} \cup {Some(c) : c \in Closes \cup {Float(0), Integer(MaxClose),
                                              OtherText}}

\* What the upstream holds for one instrument at one attempt: history() or
\* info raises, or they answer with a history and an info.
UpstreamAnswers ==
    [raises : {TRUE}, hist : {<< >>}, previousClose : {None}]
        \cup [raises : {FALSE}, hist : Histories,
              previousClose : PreviousCloses]

\* HTTP exchanges with the store: a status code, or no response at all (the
\* request raised: timeout, connection error).
NoResponse == 0

PostResponses == {NoResponse, 201, 299, 300, 500}

GetResponses == {NoResponse, 200, 500}

DeleteResponses == {NoResponse, 200, 299, 300, 500}

\* The store applies a write exactly when it answers 2xx; a request that got
\* no response may or may not have been applied.
MayApply(resp) ==
    IF resp = NoResponse THEN BOOLEAN
    ELSE IF resp \in 200..299 THEN {TRUE} ELSE {FALSE}

(***************************************************************************)
(* Rows already in the store when the first run starts, dated relative to  *)
(* the day of instant 0.                                                   *)
(***************************************************************************)
OldRow(symbol, age, close) ==
    [symbol     |-> symbol,
     trade_date |-> IsoDate(Day0 - age),
     close      |-> Float(close),
     fetched_at |-> [date |-> IsoDate(Day0 - age), time |-> TimesOfDay[1]]]

OldRows ==
    { OldRow(Roster[1], 0, 1),
      OldRow(Roster[1], RETENTION_DAYS + 1, 1),
      OldRow(OtherSymbol, RETENTION_DAYS - 1, 1),
      OldRow(OtherSymbol, RETENTION_DAYS, 1),
      OldRow(OtherSymbol, RETENTION_DAYS + 1, 1) }

\* The store at the start: empty, one old row, or all of them.
InitialStores == {S \in SUBSET OldRows : Cardinality(S) <= 1 \/ S = OldRows}

(***************************************************************************)
(* Pure functions of the program.                                          *)
(***************************************************************************)
\* As Slice, with the last element of the slice left out.
SliceShort(seq, a, b) ==
    SubSeq(seq, a + 1, (IF b < Len(seq) THEN b ELSE Len(seq)) - 1)

\* seq[a:b] of Python, 0-based, clipped to the sequence
Slice(seq, a, b) ==
    SubSeq(seq, a + 1, IF b < Len(seq) THEN b ELSE Len(seq))

\* As LookupOutcome, with the oldest row of the history read (iloc[0]).
LookupOldest(u) ==
    LET sorted ==
            IF u.raises THEN [kind |-> "raise", close |-> Float(0)]
            ELSE IF u.hist = << >>
            THEN IF u.previousClose = None
                 THEN [kind |-> "nodata", close |-> Float(0)]
                 ELSE [kind |-> "info", close |-> u.previousClose[1]]
            ELSE [kind |-> "hist", close |-> ToFloat(u.hist[1])]
    IN  [kind |-> sorted.kind, close |-> sorted.close,
         hist |-> u.hist, previousClose |-> u.previousClose]

\* fetch_ticker_price, the try block up to its return statements: the
\* outcome for what the upstream holds, kept together with what it held
LookupOutcome(u) ==
    LET sorted ==
            IF u.raises THEN [kind |-> "raise", close |-> Float(0)]
            ELSE IF u.hist = << >>
            THEN IF u.previousClose = None
                 THEN [kind |-> "nodata", close |-> Float(0)]
                 ELSE [kind |-> "info", close |-> u.previousClose[1]]
            ELSE [kind |-> "hist", close |-> ToFloat(u.hist[Len(u.hist)])]
    IN  [kind |-> sorted.kind, close |-> sorted.close,
         hist |-> u.hist, previousClose |-> u.previousClose]

\* fetch_ticker_price, the try block: the value returned for an outcome that
\* raised nothing
QuoteOf(ticker_symbol, o) ==
    IF o.kind \in {"hist", "info"}
    THEN Some([symbol |-> ticker_symbol, close |-> o.close])
    ELSE None

\* As OnExhausted, with a placeholder quote returned instead of None.
OnExhaustedPlaceholder(ticker_symbol) ==
    Some([symbol |-> ticker_symbol, close |-> Float(0)])

\* fetch_ticker_price, the except block: the value returned once the retries
\* are used up
OnExhausted(ticker_symbol) == None

\* As ShouldRetry, with the count compared by <= instead of <.
ShouldRetryOnceMore(rc) == rc <= MAX_RETRIES

\* fetch_ticker_price, the except block: another attempt is made
ShouldRetry(rc) == rc < MAX_RETRIES

\* As RetryDelay, with the base delay divided instead of multiplied.
RetryDelayShrinking(rc) == INITIAL_RETRY_DELAY \div (2 ^ rc)

\* fetch_ticker_price, the except block: the backoff before the next attempt
RetryDelay(rc) == INITIAL_RETRY_DELAY * (2 ^ rc)

\* fetch_ticker_price: the durations time.sleep(delay) can be called with
\* before attempt rc + 1, in seconds
BackoffSleeps(rc) == {RetryDelay(rc)}

\* fetch_quotes_batch: the durations of time.sleep(random.uniform(0.5, 1.0)),
\* in tenths of a second
TickerPauses == 5..10

\* fetch_all_quotes: the durations of
\* time.sleep(random.uniform(MIN_DELAY, MAX_DELAY)), MIN_DELAY being 2.5 and
\* MAX_DELAY 3.5, in tenths of a second
BatchPauses == 25..35

\* As NextIndex, advancing one short of the batch.
NextIndexShort(idx, size) == idx + size - 1

\* fetch_all_quotes: i += batch_size
NextIndex(idx, size) == idx + size

\* dict.get(key)
Get(d, key) == IF key \in DOMAIN d THEN Some(d[key]) ELSE None

RECURSIVE RowsOf(_, _, _)
\* build_rows, the loop over the quotes
RowsOf(quotes, trade_date, fetched_at) ==
    IF quotes = << >> THEN << >>
    ELSE LET quote  == Head(quotes)
             symbol == Get(quote, "symbol")
             close  == Get(quote, "close")
             rest   == RowsOf(Tail(quotes), trade_date, fetched_at)
         IN  IF Falsy(symbol) \/ close = None THEN rest
             ELSE << [symbol     |-> symbol[1],
                      trade_date |-> trade_date,
                      close      |-> ToFloat(close[1]),
                      fetched_at |-> fetched_at] >> \o rest

\* As build_rows, with the clock read again for each row, a day having
\* passed between two rows.
build_rows_stamped_each(quotes, now) ==
    LET stamped == RowsOf(quotes, IsoDate(now.day), IsoDateTime(now))
    IN  [n \in 1..Len(stamped) |->
            [stamped[n] EXCEPT
                !.trade_date = IsoDate(now.day + n - 1),
                !.fetched_at = IsoDateTime(MinusDays(now, 1 - n))]]

\* build_rows(quotes) when the clock reads `now`
build_rows(quotes, now) ==
    RowsOf(quotes, IsoDate(now.day), IsoDateTime(now))

\* build_rows(quotes) raises: float(close) fails on a quote it keeps
BuildRowsRaises(quotes) ==
    \E n \in 1..Len(quotes) :
        /\ ~Falsy(Get(quotes[n], "symbol"))
        /\ Get(quotes[n], "close") # None
        /\ FloatRaises(Get(quotes[n], "close")[1])

\* As NoRows, without the early return.
NoRowsIgnored(rs) == FALSE

\* main: `if not rows: return`
NoRows(rs) == rs = << >>

SameKey(a, b) == a.symbol = b.symbol /\ a.trade_date = b.trade_date

\* As MergeDuplicates, with a plain insert that resolves no conflict.
InsertAll(table, rs) == table \cup {rs[n] : n \in 1..Len(rs)}

\* As MergeDuplicates, with resolution=ignore-duplicates: a stored row is
\* kept and the posted row with its key is dropped.
IgnoreDuplicates(table, rs) ==
    table \cup {rs[n] : n \in {m \in 1..Len(rs) :
                                 \A r \in table : ~SameKey(r, rs[m])}}

\* The store's answer to POST ?on_conflict=symbol,trade_date with
\* Prefer: resolution=merge-duplicates
MergeDuplicates(table, rs) ==
    {r \in table : \A n \in 1..Len(rs) : ~SameKey(r, rs[n])}
        \cup {rs[n] : n \in 1..Len(rs)}

\* As UpsertFailed, with the status compared by > instead of >=.
UpsertFailedAbove(resp) == resp = NoResponse \/ resp > 300

\* upsert_to_supabase: the request did not succeed
UpsertFailed(resp) == resp = NoResponse \/ resp >= 300

\* As UpsertErrorVerdict, with the error swallowed instead of raised again.
UpsertErrorSwallowed == "success"

\* main: `except Exception as e: ... raise`
UpsertErrorVerdict == "failed"

\* As CutoffDate, with the retention added to the clock reading instead of
\* subtracted.
CutoffDateAhead(now) == IsoDate(MinusDays(now, 0 - RETENTION_DAYS).day)

\* cleanup_old_stock_prices: cutoff_date
CutoffDate(now) == IsoDate(MinusDays(now, RETENTION_DAYS).day)

\* As OlderThan, with the filter lte instead of lt.
OlderOrEqual(row, cutoff) ==
    DateLT(row.trade_date, cutoff) \/ row.trade_date = cutoff

\* The store's filter trade_date=lt.<cutoff_date>
OlderThan(row, cutoff) == DateLT(row.trade_date, cutoff)

\* The store's answer to DELETE ?trade_date=lt.<cutoff_date>
DeleteOld(table, cutoff) == {r \in table : ~OlderThan(r, cutoff)}

\* cleanup_old_stock_prices: the delete did not succeed, or its response
\* could not be read
CleanupFailed(resp, json_ok) == resp = NoResponse \/ resp >= 300 \/ ~json_ok

\* As CleanupErrorVerdict, with the cleanup error raised again.
CleanupErrorRaised == "failed"

\* main: `except Exception as cleanup_error:` only warns
CleanupErrorVerdict == "success"

(***************************************************************************)
(* State.                                                                  *)
(***************************************************************************)
VARIABLES
    env,            \* os.environ: SUPABASE_URL and SUPABASE_SERVICE_ROLE_KEY
    store,          \* the rows of the remote table stock_prices
    clock,          \* the instant of the latest clock reading
    pc,             \* the position of main()
    verdict,        \* "running", then how main() ended
    warned,         \* the cleanup warning was printed
    i,              \* fetch_all_quotes: i; backfill_all_history.main: the
                    \* number of TICKERS its loop has visited
    batch_size,     \* fetch_all_quotes: batch_size
    batch,          \* fetch_all_quotes: batch
    k,              \* fetch_quotes_batch: position of `ticker` in the batch
    retry_count,    \* fetch_ticker_price: retry_count of the running call
    delays,         \* the backoff delays slept by the running call
    answer,         \* what the upstream answered to the latest attempt
    status,         \* fetch_ticker_price, per instrument: PENDING, FETCHED
                    \* or FAILED
    exhausted,      \* fetch_ticker_price: the instruments whose every
                    \* attempt raised
    results,        \* fetch_quotes_batch: results
    all_quotes,     \* fetch_all_quotes: all_quotes
    rows,           \* main: rows; backfill_all_history.main: all_rows
    cutoff_date,    \* cleanup_old_stock_prices: cutoff_date
    called,         \* fetch_ticker_price: the instruments the upstream was
                    \* asked about
    post_reqs,      \* the POST requests sent to the store
    get_reqs,       \* the GET requests sent to the store
    delete_reqs,    \* the DELETE requests sent to the store
    upsert_status,  \* the response to the POST, when one was sent
    delete_status,  \* the response to the DELETE, when one was sent
    store_at_start, \* the store when the run started
    run,            \* the number of the run
    prev_rows,      \* the rows the previous run upserted with success
    peer            \* a second process running main() at the same time

vars ==
    << env, store, clock, pc, verdict, warned, i, batch_size, batch, k,
       retry_count, delays, answer, status, exhausted, results, all_quotes,
       rows, cutoff_date, called, post_reqs, get_reqs, delete_reqs,
       upsert_status, delete_status, store_at_start, run, prev_rows,
       peer >>

\* The variables of the first process that the second one cannot touch.
ownVars ==
    << env, pc, verdict, warned, i, batch_size, batch, k, retry_count,
       delays, answer, status, exhausted, results, all_quotes, rows,
       cutoff_date, called, post_reqs, get_reqs, delete_reqs, upsert_status,
       delete_status, store_at_start, run, prev_rows >>

fetchVars ==
    << i, batch_size, batch, k, retry_count, delays, answer, status,
       exhausted, results, all_quotes, called >>

storeVars ==
    << store, post_reqs, get_reqs, delete_reqs, upsert_status,
       delete_status, cutoff_date >>

ticker == batch[k]

MissingSecret == Falsy(env.url) \/ Falsy(env.key)

\* The state of a process that has just entered main().
RunStart ==
    /\ pc = "loop"
    /\ verdict = "running"
    /\ warned = FALSE
    /\ i = 0
    /\ batch_size = 0
    /\ batch = << >>
    /\ k = 0
    /\ retry_count = 0
    /\ delays = << >>
    /\ answer = NoAnswer
    /\ status = [s \in Symbols |-> "PENDING"]
    /\ exhausted = {}
    /\ results = << >>
    /\ all_quotes = << >>
    /\ rows = << >>
    /\ cutoff_date = None
    /\ called = {}
    /\ post_reqs = 0
    /\ get_reqs = 0
    /\ delete_reqs = 0
    /\ upsert_status = None
    /\ delete_status = None

\* The second process: not started, or just entered main().
PeerOff ==
    [pc |-> "off", rows |-> << >>, upsert_status |-> None,
     cutoff_date |-> None, verdict |-> "running"]

PeerStart == [PeerOff EXCEPT !.pc = "fetch"]

Init ==
    /\ env \in [url : EnvValues, key : EnvValues]
    /\ store \in InitialStores
    /\ store_at_start = store
    /\ clock = 0
    /\ run = 1
    /\ prev_rows = << >>
    /\ peer = PeerOff
    /\ RunStart

(***************************************************************************)
(* fetch_all_quotes, fetch_quotes_batch, fetch_ticker_price                *)
(***************************************************************************)
\* fetch_all_quotes: the head of the while loop draws the next batch and
\* fetch_quotes_batch starts on its first ticker.
FormBatch ==
    /\ pc = "loop"
    /\ i < Len(Roster)
    /\ \E size \in MIN_BATCH_SIZE..MAX_BATCH_SIZE :
          /\ batch_size' = size
          /\ batch' = Slice(Roster, i, i + size)
    /\ results' = << >>
    /\ k' = 1
    /\ retry_count' = 0
    /\ delays' = << >>
    /\ answer' = NoAnswer
    /\ pc' = "call"
    /\ UNCHANGED << peer, env, clock, verdict, warned, i, status, exhausted,
                    all_quotes, rows, called, store_at_start, run, prev_rows >>
    /\ UNCHANGED storeVars

\* fetch_ticker_price returned `result` for `ticker`: fetch_quotes_batch
\* keeps a truthy result, then either pauses before the next ticker of the
\* batch or returns, and fetch_all_quotes extends all_quotes, advances i and
\* either pauses before the next batch or returns to main.
Returned(result, state) ==
    /\ status' = [status EXCEPT ![ticker] = state]
    /\ results' = IF result # None THEN Append(results, result[1]) ELSE results
    /\ IF ticker # batch[Len(batch)]
       THEN /\ pc' = "ticker_sleep"
            /\ UNCHANGED << i, all_quotes >>
       ELSE /\ all_quotes' = all_quotes \o results'
            /\ i' = NextIndex(i, batch_size)
            /\ pc' = IF i' < Len(Roster) THEN "batch_sleep" ELSE "build"

\* One attempt of fetch_ticker_price(ticker, retry_count): the try block and,
\* when the upstream raised, the except block up to its sleep or its return.
Attempt(o) ==
    /\ answer' = o
    /\ called' = called \cup {ticker}
    /\ IF o.kind # "raise"
       THEN /\ Returned(QuoteOf(ticker, o),
                        IF QuoteOf(ticker, o) # None
                        THEN "FETCHED" ELSE "FAILED")
            /\ UNCHANGED << delays, exhausted >>
       ELSE IF ShouldRetry(retry_count)
       THEN /\ \E delay \in BackoffSleeps(retry_count) :
                  delays' = Append(delays, delay)
            /\ pc' = "backoff"
            /\ UNCHANGED << i, all_quotes, status, results, exhausted >>
       ELSE /\ Returned(OnExhausted(ticker), "FAILED")
            /\ exhausted' = exhausted \cup {ticker}
            /\ UNCHANGED delays
    /\ UNCHANGED << peer, env, clock, verdict, warned, batch_size, batch, k,
                    retry_count, rows, store_at_start, run, prev_rows >>
    /\ UNCHANGED storeVars

\* fetch_ticker_price(ticker, retry_count), with the upstream's answer taken
\* as already sorted into the outcomes the function tells apart.
FetchTickerPrice ==
    /\ pc = "call"
    /\ \E o \in UpstreamOutcomes : Attempt(o)

\* fetch_ticker_price(ticker, retry_count), from what the upstream holds.
FetchTickerPriceLookup ==
    /\ pc = "call"
    /\ \E u \in UpstreamAnswers : Attempt(LookupOutcome(u))

\* fetch_ticker_price: time.sleep(delay) ends and the function calls itself
\* with retry_count + 1.
Backoff ==
    /\ pc = "backoff"
    /\ retry_count' = retry_count + 1
    /\ pc' = "call"
    /\ UNCHANGED << peer, env, clock, verdict, warned, i, batch_size, batch, k,
                    delays, answer, status, exhausted, results, all_quotes,
                    rows, called, store_at_start, run, prev_rows >>
    /\ UNCHANGED storeVars

\* fetch_quotes_batch: the pause between two tickers of a batch ends and
\* fetch_ticker_price is called for the next ticker.
TickerSleep ==
    /\ pc = "ticker_sleep"
    /\ k' = k + 1
    /\ retry_count' = 0
    /\ delays' = << >>
    /\ answer' = NoAnswer
    /\ pc' = "call"
    /\ UNCHANGED << peer, env, clock, verdict, warned, i, batch_size, batch,
                    status, exhausted, results, all_quotes, rows, called,
                    store_at_start, run, prev_rows >>
    /\ UNCHANGED storeVars

\* fetch_all_quotes: the pause between two batches ends.
BatchSleep ==
    /\ pc = "batch_sleep"
    /\ pc' = "loop"
    /\ UNCHANGED << peer, env, clock, verdict, warned, store_at_start, run,
                    prev_rows, rows >>
    /\ UNCHANGED fetchVars
    /\ UNCHANGED storeVars

(***************************************************************************)
(* main: build_rows, upsert_to_supabase, cleanup_old_stock_prices          *)
(***************************************************************************)
\* main: fetch_all_quotes has returned (its locals are gone); build_rows
\* reads the clock once and main returns early when there are no rows.  An
\* error raised by build_rows leaves main through `except ... raise`.
BuildRows ==
    /\ pc = "build"
    /\ \E t \in clock..MaxClock :
          /\ clock' = t
          /\ rows' = IF BuildRowsRaises(all_quotes) THEN << >>
                     ELSE build_rows(all_quotes, UtcNow(t))
    /\ IF BuildRowsRaises(all_quotes)
       THEN pc' = "done" /\ verdict' = UpsertErrorVerdict
       ELSE IF NoRows(rows')
       THEN pc' = "done" /\ verdict' = "no_rows"
       ELSE pc' = "upsert" /\ UNCHANGED verdict
    /\ i' = 0
    /\ batch_size' = 0
    /\ batch' = << >>
    /\ k' = 0
    /\ retry_count' = 0
    /\ delays' = << >>
    /\ answer' = NoAnswer
    /\ results' = << >>
    /\ UNCHANGED << peer, env, warned, status, exhausted, all_quotes, called,
                    store_at_start, run, prev_rows >>
    /\ UNCHANGED storeVars

\* upsert_to_supabase(rows): the check of the two secrets, the POST and the
\* check of its status; an error leaves main through `except ... raise`.
Upsert ==
    /\ pc = "upsert"
    /\ IF MissingSecret
       THEN /\ pc' = "done"
            /\ verdict' = UpsertErrorVerdict
            /\ UNCHANGED << store, post_reqs, upsert_status >>
       ELSE \E resp \in PostResponses :
            \E applied \in MayApply(resp) :
               /\ post_reqs' = post_reqs + 1
               /\ upsert_status' = Some(resp)
               /\ store' = IF applied THEN MergeDuplicates(store, rows)
                                      ELSE store
               /\ IF UpsertFailed(resp)
                  THEN pc' = "done" /\ verdict' = UpsertErrorVerdict
                  ELSE pc' = "cleanup" /\ UNCHANGED verdict
    /\ UNCHANGED << peer, env, clock, warned, rows, store_at_start, run, prev_rows,
                    get_reqs, delete_reqs, delete_status, cutoff_date >>
    /\ UNCHANGED fetchVars

\* cleanup_old_stock_prices up to its DELETE: the check of the two secrets,
\* the cutoff date and the GET that counts the rows to delete.  Whatever is
\* raised is caught by main, which warns and goes on.
Cleanup ==
    /\ pc = "cleanup"
    /\ IF MissingSecret
       THEN /\ pc' = "done"
            /\ warned' = TRUE
            /\ verdict' = CleanupErrorVerdict
            /\ UNCHANGED << clock, cutoff_date, get_reqs >>
       ELSE \E t \in clock..MaxClock :
            \E resp \in GetResponses :
               /\ clock' = t
               /\ cutoff_date' = Some(CutoffDate(UtcNow(t)))
               /\ get_reqs' = get_reqs + 1
               /\ IF resp = NoResponse
                  THEN /\ pc' = "done"
                       /\ warned' = TRUE
                       /\ verdict' = CleanupErrorVerdict
                  ELSE /\ pc' = "delete"
                       /\ UNCHANGED << warned, verdict >>
    /\ UNCHANGED << peer, env, store, rows, store_at_start, run, prev_rows,
                    post_reqs, delete_reqs, upsert_status, delete_status >>
    /\ UNCHANGED fetchVars

\* cleanup_old_stock_prices: the DELETE, the check of its status and the
\* reading of its body; main then prints its last line and returns.
Delete ==
    /\ pc = "delete"
    /\ \E resp \in DeleteResponses :
       \E applied \in MayApply(resp) :
       \E json_ok \in BOOLEAN :
          /\ delete_reqs' = delete_reqs + 1
          /\ delete_status' = Some(resp)
          /\ store' = IF applied THEN DeleteOld(store, cutoff_date[1])
                                 ELSE store
          /\ IF CleanupFailed(resp, json_ok)
             THEN warned' = TRUE /\ verdict' = CleanupErrorVerdict
             ELSE verdict' = "success" /\ UNCHANGED warned
    /\ pc' = "done"
    /\ UNCHANGED << peer, env, clock, rows, store_at_start, run, prev_rows,
                    post_reqs, get_reqs, upsert_status, cutoff_date >>
    /\ UNCHANGED fetchVars

\* The pipeline is run a second time, in a new process, against the same
\* store and with the same environment.
StartRun ==
    /\ pc = "done"
    /\ run = 1
    /\ run' = run + 1
    /\ prev_rows' = IF upsert_status # None /\ ~UpsertFailed(upsert_status[1])
                    THEN rows ELSE << >>
    /\ store_at_start' = store
    /\ pc' = "loop"
    /\ verdict' = "running"
    /\ warned' = FALSE
    /\ i' = 0
    /\ batch_size' = 0
    /\ batch' = << >>
    /\ k' = 0
    /\ retry_count' = 0
    /\ delays' = << >>
    /\ answer' = NoAnswer
    /\ status' = [s \in Symbols |-> "PENDING"]
    /\ exhausted' = {}
    /\ results' = << >>
    /\ all_quotes' = << >>
    /\ rows' = << >>
    /\ cutoff_date' = None
    /\ called' = {}
    /\ post_reqs' = 0
    /\ get_reqs' = 0
    /\ delete_reqs' = 0
    /\ upsert_status' = None
    /\ delete_status' = None
    /\ UNCHANGED << peer, env, store, clock >>

Next ==
    \/ FormBatch
    \/ FetchTickerPrice
    \/ Backoff
    \/ TickerSleep
    \/ BatchSleep
    \/ BuildRows
    \/ Upsert
    \/ Cleanup
    \/ Delete

Spec == Init /\ [][Next]_vars

\* Two runs of the pipeline, one after the other, with both secrets set,
\* on a store that is empty or holds a row of the first day.
InitRerun ==
    /\ Init
    /\ ~MissingSecret
    /\ store \subseteq {OldRow(Roster[1], 0, 1)}

NextRerun == Next \/ StartRun

SpecRerun == InitRerun /\ [][NextRerun]_vars

(***************************************************************************)
(* Two processes run main() at the same time against the same store, with  *)
(* the same environment and the same clock.  The steps of the second one   *)
(* are those of the first; its fetch_all_quotes, which touches nothing the *)
(* processes share, is taken in one step together with build_rows.         *)
(***************************************************************************)
\* The all_quotes fetch_all_quotes returns when the instruments `fetched`
\* each got the close `c` and the others failed.
QuotesOf(fetched, c) ==
    LET kept == SelectSeq(Roster, LAMBDA s : s \in fetched)
    IN  [n \in 1..Len(kept) |-> [symbol |-> kept[n], close |-> c]]

\* The second process fetches the whole roster or only its first
\* instrument; the instruments it fetches have one same close.
PeerQuotes ==
    {QuotesOf(fetched, c) : fetched \in {{Roster[1]}, Symbols}, c \in Closes}

PeerBuildRows ==
    /\ peer.pc = "fetch"
    /\ \E quotes \in PeerQuotes :
       \E t \in clock..MaxClock :
          /\ clock' = t
          /\ LET rs == build_rows(quotes, UtcNow(t))
             IN  peer' = IF NoRows(rs)
                         THEN [peer EXCEPT !.pc = "done",
                                           !.verdict = "no_rows"]
                         ELSE [peer EXCEPT !.pc = "upsert", !.rows = rs]
    /\ UNCHANGED store
    /\ UNCHANGED ownVars

PeerUpsert ==
    /\ peer.pc = "upsert"
    /\ IF MissingSecret
       THEN /\ peer' = [peer EXCEPT !.pc = "done",
                                    !.verdict = UpsertErrorVerdict]
            /\ UNCHANGED store
       ELSE \E resp \in PostResponses :
            \E applied \in MayApply(resp) :
               /\ store' = IF applied THEN MergeDuplicates(store, peer.rows)
                                      ELSE store
               /\ peer' = IF UpsertFailed(resp)
                          THEN [peer EXCEPT !.pc = "done",
                                            !.upsert_status = Some(resp),
                                            !.verdict = UpsertErrorVerdict]
                          ELSE [peer EXCEPT !.pc = "cleanup",
                                            !.upsert_status = Some(resp)]
    /\ UNCHANGED clock
    /\ UNCHANGED ownVars

PeerCleanup ==
    /\ peer.pc = "cleanup"
    /\ IF MissingSecret
       THEN /\ peer' = [peer EXCEPT !.pc = "done",
                                    !.verdict = CleanupErrorVerdict]
            /\ UNCHANGED clock
       ELSE \E t \in clock..MaxClock :
            \E resp \in GetResponses :
               /\ clock' = t
               /\ peer' = IF resp = NoResponse
                          THEN [peer EXCEPT
                                   !.pc = "done",
                                   !.cutoff_date = Some(CutoffDate(UtcNow(t))),
                                   !.verdict = CleanupErrorVerdict]
                          ELSE [peer EXCEPT
                                   !.pc = "delete",
                                   !.cutoff_date = Some(CutoffDate(UtcNow(t)))]
    /\ UNCHANGED store
    /\ UNCHANGED ownVars

PeerDelete ==
    /\ peer.pc = "delete"
    /\ \E resp \in DeleteResponses :
       \E applied \in MayApply(resp) :
       \E json_ok \in BOOLEAN :
          /\ store' = IF applied THEN DeleteOld(store, peer.cutoff_date[1])
                                 ELSE store
          /\ peer' = [peer EXCEPT
                         !.pc = "done",
                         !.verdict = IF CleanupFailed(resp, json_ok)
                                     THEN CleanupErrorVerdict ELSE "success"]
    /\ UNCHANGED clock
    /\ UNCHANGED ownVars

\* Both processes have just entered main(); both secrets are set and the
\* store holds a row of the first day and a row older than the retention.
InitConcurrent ==
    /\ env = [url |-> Some("set"), key |-> Some("set")]
    /\ store = {OldRow(Roster[1], 0, 1),
                OldRow(OtherSymbol, RETENTION_DAYS + 1, 1)}
    /\ store_at_start = store
    /\ clock = 0
    /\ run = 1
    /\ prev_rows = << >>
    /\ peer = PeerStart
    /\ RunStart

NextConcurrent ==
    \/ Next
    \/ PeerBuildRows
    \/ PeerUpsert
    \/ PeerCleanup
    \/ PeerDelete

SpecConcurrent == InitConcurrent /\ [][NextConcurrent]_vars

(***************************************************************************)
(* backfill_bil_history.py: main() deletes the rows of BIL, fetches the     *)
(* history of BIL and upserts it.  The process uses env, store, clock, pc, *)
(* verdict, rows and the request variables; it has no roster to traverse.  *)
(***************************************************************************)
BIL == "BIL"

\* The rows the store can hold when the backfill starts.
BackfillOldRows ==
    { OldRow(BIL, 0, 1), OldRow(BIL, 1, 1),
      OldRow(Roster[1], 0, 1), OldRow(OtherSymbol, RETENTION_DAYS, 1) }

\* What ticker.history(period="240d") answers: it raises, or it returns the
\* rows of the last days, oldest first (none, one or two), each with the
\* ordinal of its day and its Close.
BilHistories ==
    {<< >>}
        \cup {<< [day |-> Day0, close |-> c] >> : c \in HistoryCloses}
        \cup {<< [day |-> Day0 - 1, close |-> d], [day |-> Day0, close |-> c] >> :
                 d, c \in HistoryCloses}

\* The clock readings of the loop of fetch_bil_history, one for each row,
\* none before `from`.
Readings(n, from) ==
    {r \in [1..n -> from..MaxClock] :
        \A a, b \in 1..n : a <= b => r[a] <= r[b]}

\* fetch_bil_history: the rows for a history that is not empty
bil_rows(hist, readings) ==
    [n \in 1..Len(hist) |->
        [symbol     |-> BIL,
         trade_date |-> IsoDate(hist[n].day),
         close      |-> ToFloat(hist[n].close),
         fetched_at |-> IsoDateTime(UtcNow(readings[n]))]]

\* As DeleteSymbol, with no filter on the symbol.
DeleteEverySymbol(table, symbol) == {}

\* The store's answer to DELETE ?symbol=eq.<symbol>
DeleteSymbol(table, symbol) == {r \in table : r.symbol # symbol}

\* main: the delete did not succeed, or its response could not be read
BilDeleteFailed(resp, json_ok) ==
    resp = NoResponse \/ resp >= 300 \/ ~json_ok

InitBackfill ==
    /\ env \in [url : EnvValues, key : EnvValues]
    /\ store \in SUBSET BackfillOldRows
    /\ store_at_start = store
    /\ clock = 0
    /\ run = 1
    /\ prev_rows = << >>
    /\ peer = PeerOff
    /\ pc = "bil_delete"
    /\ verdict = "running"
    /\ warned = FALSE
    /\ i = 0
    /\ batch_size = 0
    /\ batch = << >>
    /\ k = 0
    /\ retry_count = 0
    /\ delays = << >>
    /\ answer = NoAnswer
    /\ status = [s \in Symbols |-> "PENDING"]
    /\ exhausted = {}
    /\ results = << >>
    /\ all_quotes = << >>
    /\ rows = << >>
    /\ cutoff_date = None
    /\ called = {}
    /\ post_reqs = 0
    /\ get_reqs = 0
    /\ delete_reqs = 0
    /\ upsert_status = None
    /\ delete_status = None

\* main: the check of the two secrets, the DELETE of the rows of BIL, the
\* check of its status and the reading of its body.
BilDelete ==
    /\ pc = "bil_delete"
    /\ IF MissingSecret
       THEN /\ pc' = "done"
            /\ verdict' = "failed"
            /\ UNCHANGED << store, delete_reqs, delete_status >>
       ELSE \E resp \in DeleteResponses :
            \E applied \in MayApply(resp) :
            \E json_ok \in BOOLEAN :
               /\ delete_reqs' = delete_reqs + 1
               /\ delete_status' = Some(resp)
               /\ store' = IF applied THEN DeleteSymbol(store, BIL)
                                      ELSE store
               /\ IF BilDeleteFailed(resp, json_ok)
                  THEN pc' = "done" /\ verdict' = "failed"
                  ELSE pc' = "bil_fetch" /\ UNCHANGED verdict
    /\ UNCHANGED << peer, env, clock, warned, rows, store_at_start, run,
                    prev_rows, post_reqs, get_reqs, upsert_status,
                    cutoff_date >>
    /\ UNCHANGED fetchVars

\* main: fetch_bil_history(240), which raises when the upstream raises or
\* has no history.
BilFetch ==
    /\ pc = "bil_fetch"
    /\ \/ /\ pc' = "done"
          /\ verdict' = "failed"
          /\ UNCHANGED << rows, clock >>
       \/ \E hist \in BilHistories :
             IF hist = << >>
             THEN /\ pc' = "done"
                  /\ verdict' = "failed"
                  /\ UNCHANGED << rows, clock >>
             ELSE \E readings \in Readings(Len(hist), clock) :
                     /\ rows' = bil_rows(hist, readings)
                     /\ clock' = readings[Len(hist)]
                     /\ pc' = "bil_upsert"
                     /\ UNCHANGED verdict
    /\ UNCHANGED << peer, env, warned, store_at_start, run, prev_rows >>
    /\ UNCHANGED fetchVars
    /\ UNCHANGED storeVars

\* main: upsert_to_supabase(rows) and the last line of main.
BilUpsert ==
    /\ pc = "bil_upsert"
    /\ IF MissingSecret
       THEN /\ verdict' = "failed"
            /\ UNCHANGED << store, post_reqs, upsert_status >>
       ELSE \E resp \in PostResponses :
            \E applied \in MayApply(resp) :
               /\ post_reqs' = post_reqs + 1
               /\ upsert_status' = Some(resp)
               /\ store' = IF applied THEN MergeDuplicates(store, rows)
                                      ELSE store
               /\ verdict' = IF UpsertFailed(resp) THEN "failed"
                                                   ELSE "success"
    /\ pc' = "done"
    /\ UNCHANGED << peer, env, clock, warned, rows, store_at_start, run,
                    prev_rows, get_reqs, delete_reqs, delete_status,
                    cutoff_date >>
    /\ UNCHANGED fetchVars

NextBackfill ==
    \/ BilDelete
    \/ BilFetch
    \/ BilUpsert

SpecBackfill == InitBackfill /\ [][NextBackfill]_vars

(***************************************************************************)
(* backfill_all_history.py: main() fetches the history of every instrument *)
(* of TICKERS, an instrument whose fetch raises being skipped, and upserts  *)
(* all the rows in one request; it deletes nothing.  The process uses env, *)
(* store, clock, pc, verdict, i, rows and the request variables.           *)
(***************************************************************************)
\* The rows the store can hold when the backfill starts.
AllBackfillOldRows ==
    { OldRow(Roster[1], 0, 1), OldRow(Roster[1], RETENTION_DAYS + 1, 1),
      OldRow(OtherSymbol, 0, 1) }

\* The Close column of ticker.history(period="240d", interval="1d"): a
\* price, or NaN where the upstream has no price for the day.
AllHistoryCloses == {Float(MaxClose), NaN}

\* What ticker.history(period="240d") returns for one instrument: the rows
\* of the last days, oldest first (none, the day before, the day, or both),
\* each with the ordinal of its day and its Close.
AllHistories ==
    {<< >>}
        \cup {<< [day |-> d, close |-> c] >> :
                 d \in {Day0 - 1, Day0}, c \in AllHistoryCloses}
        \cup {<< [day |-> Day0 - 1, close |-> d], [day |-> Day0, close |-> c] >> :
                 d, c \in AllHistoryCloses}

\* fetch_history_for_ticker: the rows for a history, none when it is empty;
\* the clock is read once for each row.
fetch_history_for_ticker(ticker_symbol, hist, readings) ==
    [n \in 1..Len(hist) |->
        [symbol     |-> ticker_symbol,
         trade_date |-> IsoDate(hist[n].day),
         close      |-> ToFloat(hist[n].close),
         fetched_at |-> IsoDateTime(UtcNow(readings[n]))]]

InitBackfillAll ==
    /\ env \in [url : EnvValues, key : EnvValues]
    /\ store \in SUBSET AllBackfillOldRows
    /\ store_at_start = store
    /\ clock = 0
    /\ run = 1
    /\ prev_rows = << >>
    /\ peer = PeerOff
    /\ pc = "all_fetch"
    /\ verdict = "running"
    /\ warned = FALSE
    /\ i = 0
    /\ batch_size = 0
    /\ batch = << >>
    /\ k = 0
    /\ retry_count = 0
    /\ delays = << >>
    /\ answer = NoAnswer
    /\ status = [s \in Symbols |-> "PENDING"]
    /\ exhausted = {}
    /\ results = << >>
    /\ all_quotes = << >>
    /\ rows = << >>
    /\ cutoff_date = None
    /\ called = {}
    /\ post_reqs = 0
    /\ get_reqs = 0
    /\ delete_reqs = 0
    /\ upsert_status = None
    /\ delete_status = None

\* main: one turn of the loop over TICKERS.  fetch_history_for_ticker
\* raises, which main prints and passes over, or its rows are added to
\* all_rows.  After the last instrument main returns when there is no row
\* at all, else it goes on to the upsert.
AllFetch ==
    /\ pc = "all_fetch"
    /\ i < Len(Roster)
    /\ \/ UNCHANGED << rows, clock >>
       \/ \E hist \in AllHistories :
          \E readings \in Readings(Len(hist), clock) :
             /\ rows' = rows \o fetch_history_for_ticker(Roster[i + 1], hist,
                                                         readings)
             /\ clock' = IF hist = << >> THEN clock
                                         ELSE readings[Len(hist)]
    /\ i' = i + 1
    /\ IF i' < Len(Roster)
       THEN UNCHANGED << pc, verdict >>
       ELSE IF NoRows(rows')
            THEN pc' = "done" /\ verdict' = "no_rows"
            ELSE pc' = "all_upsert" /\ UNCHANGED verdict
    /\ UNCHANGED << peer, env, warned, store_at_start, run, prev_rows,
                    batch_size, batch, k, retry_count, delays, answer,
                    status, exhausted, results, all_quotes, called >>
    /\ UNCHANGED storeVars

\* main: upsert_to_supabase(all_rows), which checks the two secrets, sends
\* one POST and raises on a status of 300 or more, and the last line of
\* main.
AllUpsert ==
    /\ pc = "all_upsert"
    /\ IF MissingSecret
       THEN /\ verdict' = "failed"
            /\ UNCHANGED << store, post_reqs, upsert_status >>
       ELSE \E resp \in PostResponses :
            \E applied \in MayApply(resp) :
               /\ post_reqs' = post_reqs + 1
               /\ upsert_status' = Some(resp)
               /\ store' = IF applied THEN MergeDuplicates(store, rows)
                                      ELSE store
               /\ verdict' = IF UpsertFailed(resp) THEN "failed"
                                                   ELSE "success"
    /\ pc' = "done"
    /\ UNCHANGED << peer, env, clock, warned, rows, store_at_start, run,
                    prev_rows, get_reqs, delete_reqs, delete_status,
                    cutoff_date >>
    /\ UNCHANGED fetchVars

NextBackfillAll ==
    \/ AllFetch
    \/ AllUpsert

SpecBackfillAll == InitBackfillAll /\ [][NextBackfillAll]_vars

\* One run in which every step that can be taken is eventually taken: a
\* sleep ends, a call to the upstream returns or raises, a request to the
\* store (sent with a timeout) is answered or raises.  The store is empty;
\* the key is set, the URL is set or unset.
InitFair ==
    /\ Init
    /\ store = {}
    /\ env.key = Some("set")
    /\ env.url # Some("")

SpecFair == InitFair /\ [][Next]_vars /\ WF_vars(Next)

\* One run with both secrets set on an empty store, the upstream holding any
\* history and info (NaN, zero and text closes included).
InitUpstream ==
    /\ Init
    /\ ~MissingSecret
    /\ store = {}

NextUpstream ==
    \/ FormBatch
    \/ FetchTickerPriceLookup
    \/ Backoff
    \/ TickerSleep
    \/ BatchSleep
    \/ BuildRows
    \/ Upsert
    \/ Cleanup
    \/ Delete

SpecUpstream == InitUpstream /\ [][NextUpstream]_vars

(***************************************************************************)
(* Properties of the daily pipeline.                                       *)
(***************************************************************************)
Succeeded(st) == st # None /\ st[1] \in 200..299

Refused(st) == st # None /\ st[1] >= 300

Fetched == {s \in Symbols : status[s] = "FETCHED"}

Failed == {s \in Symbols : status[s] = "FAILED"}

RowSymbols(rs) == {rs[n].symbol : n \in 1..Len(rs)}

RowSet(rs) == {rs[n] : n \in 1..Len(rs)}

\* C1: the delete request of the pruner is issued at most once in a run, and
\* only when the upsert of the same run was issued and answered with a
\* success status; the pruner is not even entered otherwise.
C1_DeleteOnlyAfterUpsertSuccess ==
    /\ delete_reqs <= 1
    /\ delete_reqs = 1 => post_reqs = 1 /\ Succeeded(upsert_status)
    /\ pc \in {"cleanup", "delete"} => post_reqs = 1 /\ Succeeded(upsert_status)
    /\ get_reqs > 0 => post_reqs = 1 /\ Succeeded(upsert_status)

C1_Witness ==
    /\ pc = "done"
    /\ delete_reqs = 1
    /\ post_reqs = 1
    /\ Succeeded(upsert_status)

\* C2: when the store answers the upsert with a status >= 300 the run has
\* ended with the failed verdict, and neither request of the pruner was made.
C2_RefusedUpsertIsFatal ==
    Refused(upsert_status) =>
        /\ pc = "done"
        /\ verdict = "failed"
        /\ get_reqs = 0
        /\ delete_reqs = 0
        /\ ~warned

C2_Witness ==
    /\ upsert_status = Some(500)
    /\ verdict = "failed"
    /\ store = store_at_start

\* C3: whenever the pruning step failed (the warning was printed) the run has
\* ended with the success verdict and every row of the preceding upsert is
\* still in the store.
C3_CleanupFailureIsCaught ==
    warned =>
        /\ pc = "done"
        /\ verdict = "success"
        /\ Succeeded(upsert_status)
        /\ RowSet(rows) \subseteq store

C3_Witness ==
    /\ warned
    /\ Refused(delete_status)
    /\ rows # << >>
    /\ verdict = "success"

\* C4: a run in which every roster instrument ended FAILED has sent no
\* request to the store, has left the store as it was, and has ended with
\* the success-with-no-rows verdict.
C4_NothingFetchedNothingWritten ==
    (pc = "done" /\ Failed = Symbols) =>
        /\ rows = << >>
        /\ post_reqs = 0
        /\ get_reqs = 0
        /\ delete_reqs = 0
        /\ store = store_at_start
        /\ verdict = "no_rows"

C4_Witness ==
    /\ pc = "done"
    /\ Failed = Symbols
    /\ exhausted # {}
    /\ store # {}
    /\ verdict = "no_rows"

\* C5: in a run that lacks one of the two secrets no network call is ever
\* made (the upstream is not asked about any instrument, the store gets no
\* request) and the run ends with the failed verdict, whatever the fetch
\* phase would have produced.
C5_MissingSecretFailsBeforeAnyCall ==
    MissingSecret =>
        /\ called = {}
        /\ post_reqs = 0 /\ get_reqs = 0 /\ delete_reqs = 0
        /\ pc = "done" => verdict = "failed"

\* C6: once the fetch phase is over every roster instrument has been asked
\* for and is FETCHED or FAILED, an instrument whose every attempt raised is
\* FAILED and has no row, the row batch holds exactly one row per FETCHED
\* instrument, with its quote, the batch goes to the upsert whenever it is not
\* empty, and the run fails only for a missing secret or a failed upsert.
C6_FailedInstrumentIsIsolated ==
    /\ exhausted \subseteq Failed
    /\ pc \in {"build", "upsert", "cleanup", "delete", "done"} =>
          /\ Fetched \cup Failed = Symbols
          /\ called = Symbols
          /\ RowSymbols(all_quotes) = Fetched
          /\ Len(all_quotes) = Cardinality(Fetched)
    /\ pc \in {"upsert", "cleanup", "delete", "done"} =>
          /\ Len(rows) = Len(all_quotes)
          /\ \A n \in 1..Len(rows) :
                /\ rows[n].symbol = all_quotes[n].symbol
                /\ rows[n].close = all_quotes[n].close
          /\ RowSymbols(rows) \cap exhausted = {}
          /\ verdict = "no_rows" <=> (pc = "done" /\ Fetched = {})
          /\ verdict = "failed" =>
                /\ Fetched # {}
                /\ MissingSecret \/ (post_reqs = 1 /\ ~Succeeded(upsert_status))
          /\ Succeeded(upsert_status) /\ delete_reqs = 0 =>
                RowSet(rows) \subseteq store

C6_Witness ==
    /\ pc = "cleanup"
    /\ Roster[1] \in exhausted
    /\ Fetched = Symbols \ {Roster[1]}
    /\ RowSymbols(rows) = Fetched
    /\ RowSet(rows) \subseteq store

\* fetch_ticker_price has just returned to fetch_quotes_batch.
JustReturned == pc \in {"ticker_sleep", "batch_sleep", "build"}

\* C7: a call that succeeds on the attempt after k transient failures, for
\* any k up to MAX_RETRIES, leaves its instrument FETCHED with the quote of
\* that attempt, after exactly k backoff sleeps whose delays never decrease.
C7_SuccessAfterRetries ==
    (JustReturned /\ answer.kind \in {"hist", "info"}) =>
        /\ status[ticker] = "FETCHED"
        /\ results # << >>
        /\ results[Len(results)] = [symbol |-> ticker, close |-> answer.close]
        /\ retry_count <= MAX_RETRIES
        /\ Len(delays) = retry_count
        /\ \A n \in 1..(Len(delays) - 1) : delays[n] <= delays[n + 1]

C7_Witness ==
    /\ JustReturned
    /\ status[ticker] = "FETCHED"
    /\ retry_count = MAX_RETRIES
    /\ Len(delays) = MAX_RETRIES
    /\ delays[1] < delays[MAX_RETRIES]

\* C8: an instrument leaves PENDING only through an attempt made for it: to
\* FETCHED when the attempt succeeds, to FAILED when it finds no data or
\* raises with no retry left; an attempt that raises with retries left keeps
\* it PENDING with one more retry counted.  FETCHED and FAILED are final: the
\* state never changes again and no attempt or backoff is ever made for an
\* instrument that is not PENDING.
C8_InstrumentStateMachine ==
    /\ [](pc \in {"call", "backoff"} => status[ticker] = "PENDING")
    /\ [][\A s \in Symbols :
            /\ status[s] # "PENDING" => status'[s] = status[s]
            /\ (status[s] = "PENDING" /\ status'[s] = "FETCHED") =>
                  /\ pc = "call"
                  /\ s = ticker
                  /\ answer'.kind \in {"hist", "info"}
            /\ (status[s] = "PENDING" /\ status'[s] = "FAILED") =>
                  /\ pc = "call"
                  /\ s = ticker
                  /\ \/ answer'.kind = "nodata"
                     \/ answer'.kind = "raise" /\ retry_count = MAX_RETRIES
            /\ (pc = "call" /\ s = ticker /\ answer'.kind = "raise"
                   /\ retry_count < MAX_RETRIES) =>
                  /\ status'[s] = "PENDING"
                  /\ pc' = "backoff"
            /\ (pc = "backoff" /\ s = ticker) =>
                  /\ status'[s] = "PENDING"
                  /\ retry_count' = retry_count + 1
                  /\ pc' = "call"
       ]_vars

C8_Witness ==
    /\ pc = "call"
    /\ retry_count > 0
    /\ Fetched # {}
    /\ Failed # {}
    /\ status[ticker] = "PENDING"

\* No two rows of the table have the same (symbol, trade_date).
KeyUnique(table) == \A a, b \in table : SameKey(a, b) => a = b

\* The second run has ended, both runs upserted with success, and both
\* stamped their rows with the same UTC calendar date.
RanTwiceOnOneDate ==
    /\ run = 2
    /\ pc = "done"
    /\ prev_rows # << >>
    /\ Succeeded(upsert_status)
    /\ rows[1].trade_date = prev_rows[1].trade_date

\* C9, as stated: after two runs on one date the store holds no two rows with
\* the same (symbol, trade_date), and every stored row of that date has the
\* close and fetched_at of the second run.
C9_AsStated ==
    /\ KeyUnique(store)
    /\ RanTwiceOnOneDate =>
          \A r \in store :
             r.trade_date = rows[1].trade_date => r \in RowSet(rows)

\* C9, amended: the store never holds two rows with the same (symbol,
\* trade_date); after two runs on one date it holds, for that date, exactly
\* one row for each symbol either run upserted: the row of the second run for
\* a symbol the second run upserted, and the row of the first run for a symbol
\* only the first run upserted.
C9_LastWriteWinsPerSymbol ==
    /\ KeyUnique(store)
    /\ RanTwiceOnOneDate =>
          /\ RowSet(rows) \subseteq store
          /\ \A n \in 1..Len(prev_rows) :
                prev_rows[n].symbol \notin RowSymbols(rows) =>
                    prev_rows[n] \in store
          /\ \A s \in RowSymbols(rows) \cup RowSymbols(prev_rows) :
                Cardinality({r \in store : /\ r.symbol = s
                                           /\ r.trade_date = rows[1].trade_date})
                    = 1

C9_Witness ==
    /\ RanTwiceOnOneDate
    /\ \E n \in 1..Len(rows) : \E m \in 1..Len(prev_rows) :
          /\ SameKey(rows[n], prev_rows[m])
          /\ rows[n].close # prev_rows[m].close
          /\ rows[n].fetched_at # prev_rows[m].fetched_at
          /\ rows[n] \in store
          /\ prev_rows[m] \notin store

\* The days between the date of a stored row and the day `today`.
AgeInDays(row, today) ==
    CHOOSE a \in -MaxClock..(RETENTION_DAYS + MaxClock + 2) :
        IsoDate(today - a) = row.trade_date

\* C10: a delete request that the store answers with success removes exactly
\* the rows, of whatever symbol, dated more than RETENTION_DAYS days before
\* the day the pruner read from the clock, and changes no other row.
C10_PrunesExactlyOlderThanCutoff ==
    [][(delete_reqs' = delete_reqs + 1 /\ Succeeded(delete_status')) =>
          store' = {r \in store :
                      AgeInDays(r, UtcNow(clock).day) <= RETENTION_DAYS}
      ]_vars

C10_Witness ==
    /\ pc = "done"
    /\ Succeeded(delete_status)
    /\ UtcNow(clock).day = Day0
    /\ store_at_start = OldRows
    /\ rows # << >>
    /\ store = RowSet(rows) \cup
               { OldRow(OtherSymbol, RETENTION_DAYS - 1, 1),
                 OldRow(OtherSymbol, RETENTION_DAYS, 1) }

(***************************************************************************)
(* Properties of the rows of a run, the upstream holding any data.         *)
(***************************************************************************)
PositiveFinite(value) == value.t = "float" /\ value.v > 0

\* C11: a run emits at most as many rows as the roster has instruments, and
\* every row sent to the store has a symbol and a finite, strictly positive
\* close.
C11_RowsBoundedAndPositive ==
    /\ Len(rows) <= Len(Roster)
    /\ post_reqs > 0 =>
          \A n \in 1..Len(rows) :
             /\ rows[n].symbol \in Symbols
             /\ PositiveFinite(rows[n].close)

(***************************************************************************)
(* Properties of two concurrent runs.                                      *)
(***************************************************************************)
\* The dates a run of the model can stamp its rows with.
CurrentDates == {IsoDate(UtcNow(t).day) : t \in 0..MaxClock}

HasKeyOf(rs, r) == \E n \in 1..Len(rs) : SameKey(rs[n], r)

Applied(st) == st # None /\ ~Refused(st)

\* C12: whatever the interleaving of two concurrent runs, the store never
\* holds two rows with one (symbol, trade_date); an upsert that the store
\* applied leaves each of its rows stored; a stored row of a current date
\* stays as it is until an upsert of either run posts a row with its key
\* (so each key holds the row of the upsert applied last); and once both
\* runs have finished, every row of a successful upsert is stored unless the
\* other run's applied upsert posted a row with the same key, which then is
\* the stored one.
C12_ConcurrentWritersLastWins ==
    /\ [](KeyUnique(store))
    /\ [](pc = "done" /\ peer.pc = "done" =>
            /\ Succeeded(upsert_status) =>
                  \A n \in 1..Len(rows) :
                     \/ rows[n] \in store
                     \/ /\ Applied(peer.upsert_status)
                        /\ \E m \in 1..Len(peer.rows) :
                              /\ SameKey(peer.rows[m], rows[n])
                              /\ peer.rows[m] \in store
            /\ Succeeded(peer.upsert_status) =>
                  \A m \in 1..Len(peer.rows) :
                     \/ peer.rows[m] \in store
                     \/ /\ Applied(upsert_status)
                        /\ \E n \in 1..Len(rows) :
                              /\ SameKey(rows[n], peer.rows[m])
                              /\ rows[n] \in store)
    /\ [][LET mainPosts == post_reqs' = post_reqs + 1
              peerPosts == peer.pc = "upsert" /\ peer'.upsert_status # None
          IN  /\ mainPosts /\ (Succeeded(upsert_status') \/ store' # store)
                    => RowSet(rows) \subseteq store'
              /\ peerPosts /\ (Succeeded(peer'.upsert_status)
                                  \/ store' # store)
                    => RowSet(peer.rows) \subseteq store'
              /\ \A r \in store :
                    r.trade_date \in CurrentDates =>
                       \/ r \in store'
                       \/ mainPosts /\ HasKeyOf(rows, r)
                       \/ peerPosts /\ HasKeyOf(peer.rows, r)]_vars

\* Both runs succeeded on one date; the first process's row of one key is
\* stored although the second posted another close for it, and the second
\* process's cleanup deleted the old row while the first was still running.
C12_Witness ==
    /\ pc = "done" /\ peer.pc = "done"
    /\ verdict = "success" /\ peer.verdict = "success"
    /\ \E n \in 1..Len(rows) :
       \E m \in 1..Len(peer.rows) :
          /\ SameKey(rows[n], peer.rows[m])
          /\ rows[n].close # peer.rows[m].close
          /\ rows[n] \in store
    /\ \E m \in 1..Len(peer.rows) :
          /\ ~HasKeyOf(rows, peer.rows[m])
          /\ peer.rows[m] \in store
    /\ \A r \in store : r.trade_date \in CurrentDates

(***************************************************************************)
(* More properties of the daily pipeline.                                  *)
(***************************************************************************)
\* C13: all the rows of a run carry one trade_date and one fetched_at, both
\* taken from the single clock reading of build_rows, whatever the date on
\* which the run started.
C13_OneTimestampPerRun ==
    /\ \A n, m \in 1..Len(rows) :
          /\ rows[n].trade_date = rows[m].trade_date
          /\ rows[n].fetched_at = rows[m].fetched_at
    /\ pc = "upsert" =>
          \A n \in 1..Len(rows) :
             /\ rows[n].trade_date = IsoDate(UtcNow(clock).day)
             /\ rows[n].fetched_at = IsoDateTime(UtcNow(clock))

\* A batch of several rows was posted, stamped after the UTC midnight that
\* followed the start of the run.
C13_Witness ==
    /\ post_reqs = 1
    /\ Len(rows) >= 2
    /\ rows[1].trade_date = IsoDate(Day0 + 1)
    /\ rows[Len(rows)].fetched_at.date = IsoDate(Day0 + 1)

Verdicts == {"success", "no_rows", "failed"}

\* C14: a call of fetch_ticker_price makes at most MAX_RETRIES + 1 attempts
\* and sleeps at most MAX_RETRIES backoffs; from every call the traversal
\* gets to the end of the group of the call; and every run ends, with
\* exactly one verdict that it keeps.
C14_EveryRunTerminates ==
    /\ [](/\ retry_count <= MAX_RETRIES
          /\ Len(delays) <= MAX_RETRIES
          /\ pc = "backoff" => retry_count < MAX_RETRIES
          /\ pc = "done" <=> verdict \in Verdicts
          /\ pc # "done" <=> verdict = "running")
    /\ [][(verdict \in Verdicts) => UNCHANGED verdict]_vars
    /\ (pc = "call") ~> (pc \in {"batch_sleep", "build"})
    /\ <>(pc = "done")

\* A run ended after one of its calls had used its four attempts and its
\* three backoffs.
C14_Witness ==
    /\ pc = "done"
    /\ verdict = "success"
    /\ exhausted # {}
    /\ Fetched # {}

\* The number of instruments of the roster whose call has returned.
Attempted == Cardinality(Fetched \cup Failed)

InGroup == pc \in {"call", "backoff", "ticker_sleep"}

\* C15: the groups partition the roster in roster order.  The group being
\* fetched is the next 2 or 3 instruments after the i already grouped, or
\* the 1 or 2 that remain; the call in progress is for the first instrument
\* not yet attempted, so each instrument is attempted once; a call is only
\* started for the instrument after the last attempted one; the end of a
\* group is followed by a pause exactly when instruments remain, and a new
\* group is only formed at the start or after that pause.
C15_GroupsPartitionRoster ==
    /\ [](/\ InGroup =>
                /\ Len(batch) >= 1
                /\ batch = SubSeq(Roster, i + 1, i + Len(batch))
                /\ \/ Len(batch) \in MIN_BATCH_SIZE..MAX_BATCH_SIZE
                   \/ i + Len(batch) = Len(Roster)
                /\ Len(batch) <= MAX_BATCH_SIZE
                /\ ticker = Roster[i + k]
                /\ Attempted = IF pc = "ticker_sleep" THEN i + k
                                                      ELSE i + k - 1
          /\ pc \in {"loop", "batch_sleep"} =>
                /\ i < Len(Roster)
                /\ Attempted = i
          /\ \A n \in 1..Len(Roster) :
                status[Roster[n]] # "PENDING" =>
                   \A m \in 1..n : status[Roster[m]] # "PENDING"
          /\ pc = "build" => Attempted = Len(Roster))
    /\ [][/\ pc' = "call" /\ pc \in {"loop", "ticker_sleep"} =>
                status[batch'[k']] = "PENDING" /\ i' + k' = Attempted + 1
          /\ pc' = "loop" => pc = "batch_sleep"
          /\ pc = "call" /\ pc' \notin {"call", "backoff"} =>
                pc' = IF ticker # batch[Len(batch)] THEN "ticker_sleep"
                      ELSE IF Attempted' < Len(Roster) THEN "batch_sleep"
                      ELSE "build"
          /\ pc = "batch_sleep" => pc' = "loop"]_vars

\* The last group is being fetched after a pause and holds a single
\* instrument, fewer than the size drawn for it.
C15_Witness ==
    /\ pc = "call"
    /\ i > 0
    /\ Len(batch) = 1
    /\ Len(batch) < batch_size
    /\ i + 1 = Len(Roster)

(***************************************************************************)
(* Properties of the lookup of one instrument, the upstream holding any    *)
(* data.                                                                   *)
(***************************************************************************)
\* C16: a call whose first attempt raised nothing returns the close of the
\* last row of the history when the history has a row; else the
\* previousClose of info when info has one; else the instrument is FAILED
\* at once, no backoff slept and no further attempt made for it, and the
\* run goes on to the next instrument.
C16_LookupOrder ==
    /\ [](JustReturned /\ retry_count = 0 /\ answer.kind # "raise" =>
            IF answer.hist # << >>
            THEN /\ status[ticker] = "FETCHED"
                 /\ results[Len(results)] =
                       [symbol |-> ticker,
                        close  |-> answer.hist[Len(answer.hist)]]
            ELSE IF answer.previousClose # None
            THEN /\ status[ticker] = "FETCHED"
                 /\ results[Len(results)] =
                       [symbol |-> ticker, close |-> answer.previousClose[1]]
            ELSE /\ status[ticker] = "FAILED"
                 /\ ticker \notin RowSymbols(results)
                 /\ ticker \notin exhausted
                 /\ delays = << >>
                 /\ verdict = "running")
    /\ [][/\ pc = "call" /\ answer'.kind = "nodata" =>
                /\ pc' \in {"ticker_sleep", "batch_sleep", "build"}
                /\ UNCHANGED << delays, retry_count >>
          /\ pc' = "call" /\ answer.kind = "nodata" =>
                batch'[k'] # batch[k]]_vars

\* After an instrument was fetched, the next one of its group had neither
\* a history row nor a previousClose and failed at its first attempt.
C16_Witness ==
    /\ JustReturned
    /\ retry_count = 0
    /\ answer.kind = "nodata"
    /\ answer.hist = << >> /\ answer.previousClose = None
    /\ status[ticker] = "FAILED"
    /\ results # << >>

(***************************************************************************)
(* Properties of the sleeps of a run.                                      *)
(***************************************************************************)
\* C17: the backoff before retry n + 1 is at least INITIAL_RETRY_DELAY
\* times 2^n, and every sleep of the run is randomized: while the run is in
\* a backoff, in a pause between two instruments or in a pause between two
\* groups, the sleep could have had another duration than a single fixed
\* one.
C17_EverySleepHasJitter ==
    /\ pc = "backoff" =>
          /\ delays[Len(delays)] >=
                INITIAL_RETRY_DELAY * (2 ^ retry_count)
          /\ \E d \in BackoffSleeps(retry_count) : d # delays[Len(delays)]
    /\ pc = "ticker_sleep" => Cardinality(TickerPauses) > 1
    /\ pc = "batch_sleep" => Cardinality(BatchPauses) > 1

(***************************************************************************)
(* Properties of build_rows on the quotes of a run.                        *)
(***************************************************************************)
HasSymbol(quote) == "symbol" \in DOMAIN quote /\ quote.symbol # ""

\* The close of the quote is there and is numeric: a float or an int.
HasNumericClose(quote) ==
    "close" \in DOMAIN quote /\ quote.close # OtherText

WellFormed(quote) == HasSymbol(quote) /\ HasNumericClose(quote)

\* C18: build_rows drops the quotes that lack a symbol or a numeric close
\* and raises nothing: once it has run, the run has not failed without
\* posting, and unless there was no row at all the rows are the well-formed
\* quotes, in their order.
C18_AnomalyDroppedSilently ==
    pc \in {"upsert", "cleanup", "delete", "done"} =>
       /\ ~(verdict = "failed" /\ post_reqs = 0)
       /\ verdict # "no_rows" =>
             LET kept == SelectSeq(all_quotes, WellFormed)
             IN  /\ Len(rows) = Len(kept)
                 /\ \A n \in 1..Len(kept) :
                       /\ rows[n].symbol = kept[n].symbol
                       /\ rows[n].close = ToFloat(kept[n].close)
       /\ verdict = "no_rows" => SelectSeq(all_quotes, WellFormed) = << >>

(***************************************************************************)
(* Properties of the pruner on the rows of its own run.                    *)
(***************************************************************************)
\* C19: the cutoff, computed from the pruner's own clock reading, is never
\* after the trade_date of the rows of the run, so that the rows a run
\* upserted with success are stored whenever the pruner has run and when
\* the run has ended.
C19_PrunerSparesOwnRows ==
    /\ cutoff_date # None =>
          \A n \in 1..Len(rows) : ~OlderThan(rows[n], cutoff_date[1])
    /\ Succeeded(upsert_status) => RowSet(rows) \subseteq store

\* The rows are dated the first day; the pruner read the clock after
\* midnight, computed its cutoff from the second day and deleted old rows;
\* the rows of the run are stored.
C19_Witness ==
    /\ pc = "done"
    /\ verdict = "success" /\ ~warned
    /\ rows # << >>
    /\ rows[1].trade_date = IsoDate(Day0)
    /\ cutoff_date = Some(IsoDate(Day0 + 1 - RETENTION_DAYS))
    /\ \E r \in store_at_start : r \notin store
    /\ RowSet(rows) \subseteq store

(***************************************************************************)
(* Properties of the backfill of BIL.                                      *)
(***************************************************************************)
RowsOfSymbol(table, symbol) == {r \in table : r.symbol = symbol}

\* C20: the backfill fetches and upserts only after its delete succeeded;
\* after the delete and until the upsert the store holds no row of BIL; a
\* run that ends in failure after the delete succeeded, the upsert not sent
\* or refused, leaves the store without any row of BIL; and the rows of the
\* other symbols are those the store held at the start, in every state of
\* every run.
C20_BackfillDeletesFirst ==
    /\ rows # << >> \/ post_reqs > 0 => Succeeded(delete_status)
    /\ Succeeded(delete_status) /\ post_reqs = 0 =>
          RowsOfSymbol(store, BIL) = {}
    /\ /\ pc = "done"
       /\ verdict = "failed"
       /\ Succeeded(delete_status)
       /\ upsert_status = None \/ Refused(upsert_status)
       => RowsOfSymbol(store, BIL) = {}
    /\ store \ RowsOfSymbol(store, BIL)
          = store_at_start \ RowsOfSymbol(store_at_start, BIL)

\* The store held rows of BIL and of other symbols; the delete succeeded,
\* the history was fetched and the upsert was refused: the run failed, no
\* row of BIL is left and the other rows are there.
C20_Witness ==
    /\ pc = "done"
    /\ verdict = "failed"
    /\ Succeeded(delete_status)
    /\ Refused(upsert_status)
    /\ rows # << >>
    /\ RowsOfSymbol(store_at_start, BIL) # {}
    /\ RowsOfSymbol(store, BIL) = {}
    /\ store # {}

==========================================================================
